---- MODULE Spec2Model ----
(***************************************************************************)
(* Model of the recommendation engine of ecotuned                          *)
(* (src/lib/recommendations.ts): the rule catalogue, the priority/impact   *)
(* sort, the category-diversity selection, the 4-item cut and the          *)
(* time-status annotation, as one call of generateRecommendations; and of  *)
(* the functions around it: the heating/hot-water compatibility table      *)
(* (src/lib/heatingUtils.ts) and the weather processing that feeds the     *)
(* engine (src/lib/api.ts: calculateDryingScore,                           *)
(* findContinuousDryingPeriods, processDayWeather).                        *)
(*                                                                         *)
(* Conventions                                                             *)
(*  - temperatures, wind speed, percentages and hours are integers;        *)
(*  - avgScore of a continuous drying period is in percent (0.5 -> 50);    *)
(*  - weather.date is held as the value getDay() returns for it            *)
(*    (0 = Sunday .. 6 = Saturday), weather.sunset as the value            *)
(*    getHours() returns for it;                                           *)
(*  - a clock label such as "1pm" is the record [n |-> 1, half |-> "pm"];  *)
(*  - the free text of a recommendation is kept only where it carries a    *)
(*    computed value: title, and the time windows of the description;      *)
(*  - a thermostat setting is in tenths of a degree (19.5 -> 195);         *)
(*  - a drying score is in units of 1/ScoreUnit (1.0 -> ScoreUnit), which  *)
(*    makes every term of calculateDryingScore an integer for integer      *)
(*    inputs.                                                              *)
(***************************************************************************)
EXTENDS Integers, Sequences, FiniteSets, TLC

VARIABLES
    weather,     \* SimplifiedWeather argument, as the caller holds it
    prefs,       \* UserPreferences argument
    isToday,     \* boolean argument
    day,         \* 'today' | 'tomorrow'
    gridData,    \* GridData argument, or NoGrid when it is not supplied
    ukHour,      \* what getCurrentUKHour() returns during the call
    emitted,     \* the list the rules pushed, before the sort (local of the call)
    recs,        \* the list returned by the call
    phase,       \* "ready" before the call, "returned" after it
    heatingCheck, \* a (heatingType, hotWaterSystem) pair and what heatingUtils says of it
    thermostat,  \* a preferred temperature and the settings suggested from it
    hourScore,   \* an hourly sample and what calculateDryingScore returns for it
    dayWeather,  \* a day of hourly samples and what processDayWeather makes of it
    form         \* the heating fields of a preference form (SetupForm, EditPreferences)

vars == <<weather, prefs, isToday, day, gridData, ukHour, emitted, recs, phase,
          heatingCheck, thermostat, hourScore, dayWeather, form>>

\* the value of a variable in a specification that does not exercise it
Unused == [use |-> "none"]

NoGrid == [present |-> FALSE, renewablePercent |-> 0, carbonIntensity |-> 0]

-----------------------------------------------------------------------------
(* Helpers of the rules                                                    *)

Max(a, b) == IF a >= b THEN a ELSE b
Min(a, b) == IF a <= b THEN a ELSE b
Abs(a) == IF a < 0 THEN -a ELSE a

\* `${h % 12 || 12}${h >= 12 ? 'pm' : 'am'}`
ClockLabel(h) ==
    [n |-> IF h % 12 = 0 THEN 12 ELSE h % 12,
     half |-> IF h >= 12 THEN "pm" ELSE "am"]

\* formatHour of the line-dry rule
formatHour(h) ==
    IF h = 0 THEN [n |-> 12, half |-> "am"]
    ELSE IF h < 12 THEN [n |-> h, half |-> "am"]
    ELSE IF h = 12 THEN [n |-> 12, half |-> "pm"]
    ELSE [n |-> h - 12, half |-> "pm"]

\* Array.prototype.filter
RECURSIVE SelectGoodPeriods(_)
SelectGoodPeriods(s) ==
    IF s = <<>> THEN <<>>
    ELSE IF Head(s).avgScore >= 50
         THEN <<Head(s)>> \o SelectGoodPeriods(Tail(s))
         ELSE SelectGoodPeriods(Tail(s))

\* stable insertion of p into a list sorted by avgScore, best first
RECURSIVE InsertByScore(_, _)
InsertByScore(p, s) ==
    IF s = <<>> THEN <<p>>
    ELSE IF Head(s).avgScore >= p.avgScore
         THEN <<Head(s)>> \o InsertByScore(p, Tail(s))
         ELSE <<p>> \o s

\* .sort((a, b) => b.avgScore - a.avgScore), a stable sort
RECURSIVE SortByScore(_)
SortByScore(s) ==
    IF s = <<>> THEN <<>>
    ELSE InsertByScore(s[Len(s)], SortByScore(SubSeq(s, 1, Len(s) - 1)))

\* .slice(0, n)
Slice(s, n) == SubSeq(s, 1, Min(n, Len(s)))

\* bestPeriods of the line-dry rule: filter, sort, slice(0, 3)
bestPeriods(w) == Slice(SortByScore(SelectGoodPeriods(w.continuousDryingPeriods)), 3)

\* timeWindows: one <<start, end>> pair of labels per best period
timeWindows(w) ==
    [i \in 1..Len(bestPeriods(w)) |->
        <<formatHour(bestPeriods(w)[i].startHour),
          formatHour(bestPeriods(w)[i].endHour + 1)>>]

\* shouldLineDry with the drying-hours bound taken strictly
shouldLineDryStrict(w) == w.dryingHours > 3 /\ w.windSpeedMph < 25

shouldLineDry(w) == w.dryingHours >= 3 /\ w.windSpeedMph < 25

getLineDryQuality(w) ==
    LET isExceptional == w.dryingHours >= 5 /\ w.rainProbability < 10
        isMarginal == w.dryingHours >= 3 /\ w.dryingHours < 5
    IN  IF isExceptional
        THEN [title |-> "Exceptional day for line-drying", priority |-> "high"]
        ELSE IF isMarginal
        THEN [title |-> "Decent day for line-drying", priority |-> "medium"]
        ELSE [title |-> "Good day for line-drying", priority |-> "high"]

\* reduce((prev, current) => current.solarRadiation > prev.solarRadiation ? current : prev)
RECURSIVE MaxRadiation(_, _)
MaxRadiation(prev, s) ==
    IF s = <<>> THEN prev
    ELSE MaxRadiation(IF Head(s).solarRadiation > prev.solarRadiation
                      THEN Head(s) ELSE prev, Tail(s))

RECURSIVE SelectMidday(_)
SelectMidday(s) ==
    IF s = <<>> THEN <<>>
    ELSE IF Head(s).hour >= 11 /\ Head(s).hour <= 15
         THEN <<Head(s)>> \o SelectMidday(Tail(s))
         ELSE SelectMidday(Tail(s))

findBestSolarPeriod(sunnyPeriods) ==
    IF Len(sunnyPeriods) = 0
    THEN [start |-> [n |-> 12, half |-> "pm"], end |-> [n |-> 3, half |-> "pm"],
          temp |-> 15]
    ELSE LET middayPeriods == SelectMidday(sunnyPeriods)
             best == IF Len(middayPeriods) > 0
                     THEN MaxRadiation(Head(middayPeriods), Tail(middayPeriods))
                     ELSE MaxRadiation(Head(sunnyPeriods), Tail(sunnyPeriods))
         IN  [start |-> ClockLabel(best.hour),
              end |-> ClockLabel(best.hour + 3),
              temp |-> best.temp]

\* the hour at which findBestSolarPeriod starts its window (best.hour)
BestSolarHour(sunnyPeriods) ==
    LET middayPeriods == SelectMidday(sunnyPeriods)
    IN  IF Len(middayPeriods) > 0
        THEN MaxRadiation(Head(middayPeriods), Tail(middayPeriods)).hour
        ELSE MaxRadiation(Head(sunnyPeriods), Tail(sunnyPeriods)).hour

-----------------------------------------------------------------------------
(* The rules, in the order generateRecommendations evaluates them          *)

Rec(id, title, priority, category, impact, isPersonalised, windows) ==
    [id |-> id, title |-> title, priority |-> priority, category |-> category,
     impact |-> impact, isPersonalised |-> isPersonalised, windows |-> windows,
     timeStatus |-> "unset"]

isWeekend(w) == w.date = 0 \/ w.date = 6

RuleLaundry(w, p) ==
    IF p.hasGarden /\ shouldLineDry(w)
    THEN <<Rec("line-dry", getLineDryQuality(w).title, getLineDryQuality(w).priority,
               "laundry", "high", TRUE, timeWindows(w))>>
    ELSE IF w.avgHumidity < 50 /\ w.dryingHours < 3
    THEN <<Rec("indoor-dry", "Good conditions for indoor drying", "medium",
               "laundry", "high", TRUE, <<>>)>>
    ELSE <<>>

\* RuleEV with the off-peak branch open to flat-rate tariffs
RuleEVAnyTariff(w, p) ==
    IF p.hasEV /\ p.hasSolar /\ Len(w.sunnyPeriods) > 0
    THEN <<Rec("ev-solar-charging", "Charge your EV during peak solar hours", "high",
               "mobility", "high", TRUE,
               <<<<findBestSolarPeriod(w.sunnyPeriods).start,
                   findBestSolarPeriod(w.sunnyPeriods).end>>>>)>>
    ELSE IF p.hasEV /\ ~p.hasSolar
    THEN <<Rec("ev-offpeak-charging", "Charge your EV during off-peak hours", "high",
               "mobility", "high", TRUE, <<>>)>>
    ELSE <<>>

RuleEV(w, p) ==
    IF p.hasEV /\ p.hasSolar /\ Len(w.sunnyPeriods) > 0
    THEN <<Rec("ev-solar-charging", "Charge your EV during peak solar hours", "high",
               "mobility", "high", TRUE,
               <<<<findBestSolarPeriod(w.sunnyPeriods).start,
                   findBestSolarPeriod(w.sunnyPeriods).end>>>>)>>
    ELSE IF p.hasEV /\ ~p.hasSolar /\ p.hasTimeOfUseTariff
    THEN <<Rec("ev-offpeak-charging", "Charge your EV during off-peak hours", "high",
               "mobility", "high", TRUE, <<>>)>>
    ELSE <<>>

RuleCurtains(w) ==
    IF w.avgTemp < 10 /\ w.tempLow < 5
    THEN <<Rec("curtains-cold", "Close curtains at dusk to retain heat", "medium",
               "insulation", "medium", TRUE, <<>>)>>
    ELSE IF w.avgTemp >= 22 /\ w.sunnyHours >= 4
    THEN <<Rec("curtains-hot",
               IF w.tempHigh >= 26 THEN "Keep sun-facing blinds closed"
               ELSE "Close blinds during hot afternoon",
               "low", "insulation", "low", TRUE, <<>>)>>
    ELSE <<>>

RuleHeatingCooling(w, p) ==
    IF w.avgTemp < 12
    THEN IF p.hasTimeOfUseTariff
         THEN <<Rec("batch-hot-water", "Use hot water during off-peak hours", "high",
                    "heating", "high", TRUE, <<>>)>>
         ELSE <<Rec("efficient-hot-water", "Optimise hot water usage", "medium",
                    "heating", "medium", TRUE, <<>>)>>
    ELSE IF /\ w.tempHigh >= p.preferredTemperature
            /\ w.avgTemp < 21
            /\ w.tempLow > p.preferredTemperature - 3
    THEN <<Rec("natural-ventilation", "Consider turning off heating", "high",
               "heating", "high", TRUE, <<>>)>>
    ELSE IF w.avgTemp >= 22 /\ w.avgTemp < 26
    THEN <<Rec("avoid-heat-generating", "Minimise heat-generating activities", "low",
               "cooking", "low", FALSE, <<>>)>>
    ELSE IF w.avgTemp >= 26
    THEN <<Rec("hot-day-cooking", "Avoid oven use today", "low",
               "cooking", "low", FALSE, <<>>)>>
    ELSE <<>>

RuleRainyDayCooking(w) ==
    IF isWeekend(w) /\ w.rainProbability > 70 /\ w.avgTemp < 15
    THEN <<Rec("rainy-day-cooking", "Good day for batch cooking", "medium",
               "cooking", "medium", FALSE, <<>>)>>
    ELSE <<>>

RuleHeatPumpIndependent(w, p) ==
    IF p.heatingType = "heat-pump"
    THEN (IF w.avgTemp >= 5 /\ w.avgTemp <= 15
          THEN <<Rec("heat-pump-optimal", "Optimal conditions for your heat pump",
                     "medium", "heating", "high", TRUE, <<>>)>>
          ELSE <<>>)
         \o
         (IF w.tempLow < 0
          THEN <<Rec("heat-pump-cold-weather", "Prepare for reduced heat pump efficiency",
                     "medium", "heating", "medium", TRUE, <<>>)>>
          ELSE <<>>)
    ELSE <<>>

RuleHeatPump(w, p) ==
    IF p.heatingType = "heat-pump"
    THEN IF w.avgTemp >= 5 /\ w.avgTemp <= 15
         THEN <<Rec("heat-pump-optimal", "Optimal conditions for your heat pump",
                    "medium", "heating", "high", TRUE, <<>>)>>
         ELSE IF w.tempLow < 0
         THEN <<Rec("heat-pump-cold-weather", "Prepare for reduced heat pump efficiency",
                    "medium", "heating", "medium", TRUE, <<>>)>>
         ELSE <<>>
    ELSE <<>>

RuleGas(w, p, d) ==
    IF p.heatingType = "gas"
    THEN (IF w.avgTemp >= 12 /\ w.avgTemp <= 18
          THEN <<Rec("gas-mild-weather", "Reduce gas heating in mild weather", "medium",
                     "heating", "medium", TRUE, <<>>)>>
          ELSE <<>>)
         \o
         (IF w.tempLow < 5 /\ d = "tomorrow"
          THEN <<Rec("gas-cold-preheat", "Pre-heat before cold snap", "medium",
                     "heating", "medium", TRUE, <<>>)>>
          ELSE <<>>)
         \o
         (IF p.hasSolar /\ w.sunnyHours > 3
          THEN <<Rec("gas-solar-electric", "Use electric appliances during solar hours",
                     "medium", "appliances", "medium", TRUE, <<>>)>>
          ELSE <<>>)
    ELSE <<>>

\* the oil rules without the test of the heating type
RuleOilAnyHeating(w, p) ==
         (IF w.avgTemp >= 12 /\ w.avgTemp <= 18
          THEN <<Rec("oil-mild-weather", "Reduce oil heating in mild weather", "medium",
                     "heating", "medium", TRUE, <<>>)>>
          ELSE <<>>)
         \o
         (IF w.tempLow < 5
          THEN <<Rec("oil-cold-weather", "Use zone heating to save on oil", "high",
                     "heating", "high", TRUE, <<>>)>>
          ELSE <<>>)
         \o
         (IF w.avgTemp >= 10 /\ w.avgTemp <= 16 /\ Abs(w.tempHigh - w.tempLow) < 8
          THEN <<Rec("oil-batch-heating", "Consider batch heating if well-insulated",
                     "low", "heating", "medium", TRUE, <<>>)>>
          ELSE <<>>)

RuleOil(w, p) ==
    IF p.heatingType = "oil"
    THEN (IF w.avgTemp >= 12 /\ w.avgTemp <= 18
          THEN <<Rec("oil-mild-weather", "Reduce oil heating in mild weather", "medium",
                     "heating", "medium", TRUE, <<>>)>>
          ELSE <<>>)
         \o
         (IF w.tempLow < 5
          THEN <<Rec("oil-cold-weather", "Use zone heating to save on oil", "high",
                     "heating", "high", TRUE, <<>>)>>
          ELSE <<>>)
         \o
         (IF w.avgTemp >= 10 /\ w.avgTemp <= 16 /\ Abs(w.tempHigh - w.tempLow) < 8
          THEN <<Rec("oil-batch-heating", "Consider batch heating if well-insulated",
                     "low", "heating", "medium", TRUE, <<>>)>>
          ELSE <<>>)
    ELSE <<>>

RuleTank(w, p) ==
    IF p.hotWaterSystem = "tank" /\ p.hasTimeOfUseTariff
    THEN IF w.tempLow > 10
         THEN <<Rec("tank-mild-night", "Heat hot water tank during off-peak", "medium",
                    "heating", "medium", TRUE, <<>>)>>
         ELSE IF w.tempLow < 5
         THEN <<Rec("tank-cold-night", "Heat hot water tank before peak cold", "medium",
                    "heating", "medium", TRUE, <<>>)>>
         ELSE <<>>
    ELSE <<>>

\* solarPeak is null exactly when sunnyPeriods is empty
RuleElectricSolarBestPeriod(w, p) ==
    IF p.heatingType = "electric" /\ p.hasSolar /\ w.sunnyHours > 3
       /\ Len(w.sunnyPeriods) > 0
    THEN <<Rec("electric-heating-solar",
               "Use electric heating during peak solar generation", "high",
               "heating", "high", TRUE,
               <<<<[n |-> BestSolarHour(w.sunnyPeriods), half |-> "24h"],
                   [n |-> BestSolarHour(w.sunnyPeriods) + 2, half |-> "24h"]>>>>)>>
    ELSE <<>>

RuleElectricSolar(w, p) ==
    IF p.heatingType = "electric" /\ p.hasSolar /\ w.sunnyHours > 3
       /\ Len(w.sunnyPeriods) > 0
    THEN LET solarPeak == MaxRadiation(Head(w.sunnyPeriods), Tail(w.sunnyPeriods))
         IN  <<Rec("electric-heating-solar",
                   "Use electric heating during peak solar generation", "high",
                   "heating", "high", TRUE,
                   <<<<[n |-> solarPeak.hour, half |-> "24h"],
                       [n |-> solarPeak.hour + 2, half |-> "24h"]>>>>)>>
    ELSE <<>>

RuleOffPeakAppliances(p) ==
    IF p.hasTimeOfUseTariff
    THEN <<Rec("off-peak-appliances", "Run dishwasher and washing machine overnight",
               "medium", "appliances", "medium", TRUE, <<>>)>>
    ELSE <<>>

RuleGridAnyDay(t, d, g) ==
    IF t /\ g.present
    THEN (IF g.renewablePercent >= 50
          THEN <<Rec("grid-clean-now", "Great time to run appliances",
                     IF g.renewablePercent >= 60 THEN "high" ELSE "medium",
                     "appliances", "high", FALSE, <<>>)>>
          ELSE <<>>)
         \o
         (IF g.carbonIntensity > 0 /\ g.carbonIntensity < 150 /\ g.renewablePercent < 50
          THEN <<Rec("grid-low-carbon", "Low carbon intensity right now", "medium",
                     "appliances", "medium", FALSE, <<>>)>>
          ELSE <<>>)
    ELSE <<>>

RuleGrid(t, d, g) ==
    IF t /\ g.present /\ d = "today"
    THEN (IF g.renewablePercent >= 50
          THEN <<Rec("grid-clean-now", "Great time to run appliances",
                     IF g.renewablePercent >= 60 THEN "high" ELSE "medium",
                     "appliances", "high", FALSE, <<>>)>>
          ELSE <<>>)
         \o
         (IF g.carbonIntensity > 0 /\ g.carbonIntensity < 150 /\ g.renewablePercent < 50
          THEN <<Rec("grid-low-carbon", "Low carbon intensity right now", "medium",
                     "appliances", "medium", FALSE, <<>>)>>
          ELSE <<>>)
    ELSE <<>>

\* the array `recommendations` when the last rule has run
EmitRules(w, p, t, d, g) ==
    RuleLaundry(w, p) \o RuleEV(w, p) \o RuleCurtains(w) \o RuleHeatingCooling(w, p)
    \o RuleRainyDayCooking(w) \o RuleHeatPump(w, p) \o RuleGas(w, p, d) \o RuleOil(w, p)
    \o RuleTank(w, p) \o RuleElectricSolar(w, p) \o RuleOffPeakAppliances(p)
    \o RuleGrid(t, d, g)

-----------------------------------------------------------------------------
(* Sort by priority, then by impact                                        *)

priorityOrder(x) == CASE x = "high" -> 0 [] x = "medium" -> 1 [] x = "low" -> 2
impactOrder(x) == CASE x = "high" -> 0 [] x = "medium" -> 1 [] x = "low" -> 2

\* the comparator with the priorities the other way round
CompareLowFirst(a, b) ==
    LET priorityDiff == priorityOrder(b.priority) - priorityOrder(a.priority)
    IN  IF priorityDiff # 0 THEN priorityDiff
        ELSE impactOrder(a.impact) - impactOrder(b.impact)

\* the comparator handed to recommendations.sort
Compare(a, b) ==
    LET priorityDiff == priorityOrder(a.priority) - priorityOrder(b.priority)
    IN  IF priorityDiff # 0 THEN priorityDiff
        ELSE impactOrder(a.impact) - impactOrder(b.impact)

\* r goes behind every element that does not compare greater than it
RECURSIVE InsertRec(_, _)
InsertRec(r, s) ==
    IF s = <<>> THEN <<r>>
    ELSE IF Compare(Head(s), r) <= 0
         THEN <<Head(s)>> \o InsertRec(r, Tail(s))
         ELSE <<r>> \o s

\* Array.prototype.sort is stable: equal elements keep the order of the rules
RECURSIVE SortRecs(_)
SortRecs(s) ==
    IF s = <<>> THEN <<>>
    ELSE InsertRec(s[Len(s)], SortRecs(SubSeq(s, 1, Len(s) - 1)))

-----------------------------------------------------------------------------
(* applyCategoryDiversity                                                  *)

Categories == {"heating", "laundry", "mobility", "cooking", "insulation", "appliances"}

\* result.includes(rec): every element of recs is a distinct object with its own id
Includes(result, rec) == \E j \in 1..Len(result) : result[j].id = rec.id

\* the state of the passes: result and categoryCount
EmptySelection == [result |-> <<>>, categoryCount |-> [c \in Categories |-> 0]]

Take(st, rec) ==
    [result |-> Append(st.result, rec),
     categoryCount |-> [st.categoryCount EXCEPT ![rec.category] = @ + 1]]

\* first pass: every high-priority, high-impact, personalised item, uncapped
RECURSIVE FirstPass(_, _)
FirstPass(s, st) ==
    IF s = <<>> THEN st
    ELSE LET rec == Head(s)
         IN  IF rec.priority = "high" /\ rec.impact = "high" /\ rec.isPersonalised
             THEN FirstPass(Tail(s), Take(st, rec))
             ELSE FirstPass(Tail(s), st)

\* SecondPass without the per-category limit
RECURSIVE SecondPassUncapped(_, _)
SecondPassUncapped(s, st) ==
    IF s = <<>> THEN st
    ELSE LET rec == Head(s)
         IN  IF Includes(st.result, rec) THEN SecondPassUncapped(Tail(s), st)
             ELSE IF ~rec.isPersonalised THEN SecondPassUncapped(Tail(s), st)
             ELSE SecondPassUncapped(Tail(s), Take(st, rec))

\* second pass: remaining personalised items, at most 2 per category
RECURSIVE SecondPass(_, _)
SecondPass(s, st) ==
    IF s = <<>> THEN st
    ELSE LET rec == Head(s)
         IN  IF Includes(st.result, rec) THEN SecondPass(Tail(s), st)
             ELSE IF ~rec.isPersonalised THEN SecondPass(Tail(s), st)
             ELSE IF st.categoryCount[rec.category] < 2
             THEN SecondPass(Tail(s), Take(st, rec))
             ELSE SecondPass(Tail(s), st)

\* third pass: whatever remains, at most 2 per category
RECURSIVE ThirdPass(_, _)
ThirdPass(s, st) ==
    IF s = <<>> THEN st
    ELSE LET rec == Head(s)
         IN  IF Includes(st.result, rec) THEN ThirdPass(Tail(s), st)
             ELSE IF st.categoryCount[rec.category] < 2
             THEN ThirdPass(Tail(s), Take(st, rec))
             ELSE ThirdPass(Tail(s), st)

\* the capped passes with the third run before the second
CappedPassesThirdFirst(s) == SecondPass(s, ThirdPass(s, FirstPass(s, EmptySelection)))

\* the three capped passes together
CappedPasses(s) == ThirdPass(s, SecondPass(s, FirstPass(s, EmptySelection)))

\* the fill that relaxes the category limit while fewer than 4 are selected
RECURSIVE RelaxedFill(_, _)
RelaxedFill(s, result) ==
    IF s = <<>> THEN result
    ELSE IF Includes(result, Head(s)) THEN RelaxedFill(Tail(s), result)
    ELSE IF Len(result) >= 4 THEN result
    ELSE RelaxedFill(Tail(s), Append(result, Head(s)))

\* applyCategoryDiversity without the relaxed fill
applyCategoryDiversityNoFill(s) == CappedPasses(s).result

applyCategoryDiversity(s) ==
    LET result == CappedPasses(s).result
    IN  IF Len(result) < 4 THEN RelaxedFill(s, result) ELSE result

-----------------------------------------------------------------------------
(* applyTimeStatus                                                         *)

\* parseInt(label.split(':')[0]): the leading digits of a label such as "4pm"
ParseIntLabel(label) == label.n

\* TimeStatusOf with line-dry passing at the sunset hour itself
TimeStatusOfAtSunset(rec, w, currentHour) ==
    LET sunsetHour == w.sunset
        lineDryPassed == rec.id = "line-dry" /\ currentHour >= sunsetHour
        evPassed ==
            /\ rec.id = "ev-solar-charging"
            /\ Len(w.sunnyPeriods) > 0
            /\ currentHour >= ParseIntLabel(findBestSolarPeriod(w.sunnyPeriods).end)
    IN  IF lineDryPassed \/ evPassed THEN "passed" ELSE "active"

TimeStatusOf(rec, w, currentHour) ==
    LET sunsetHour == w.sunset
        lineDryPassed == rec.id = "line-dry" /\ currentHour >= sunsetHour - 2
        evPassed ==
            /\ rec.id = "ev-solar-charging"
            /\ Len(w.sunnyPeriods) > 0
            /\ currentHour >= ParseIntLabel(findBestSolarPeriod(w.sunnyPeriods).end)
    IN  IF lineDryPassed \/ evPassed THEN "passed" ELSE "active"

\* applyTimeStatus without the early return for tomorrow
applyTimeStatusAnyDay(s, w, t, currentHour) ==
    [i \in 1..Len(s) |-> [s[i] EXCEPT !.timeStatus = TimeStatusOf(s[i], w, currentHour)]]

\* applyTimeStatus followed by the move of the passed items to the bottom
applyTimeStatusPassedLast(s, w, t, currentHour) ==
    LET marked == [i \in 1..Len(s) |->
                      [s[i] EXCEPT !.timeStatus =
                          IF t THEN TimeStatusOf(s[i], w, currentHour) ELSE "active"]]
        IsActive(rec) == rec.timeStatus = "active"
        IsPassed(rec) == rec.timeStatus = "passed"
    IN  SelectSeq(marked, IsActive) \o SelectSeq(marked, IsPassed)

applyTimeStatus(s, w, t, currentHour) ==
    IF ~t
    THEN [i \in 1..Len(s) |-> [s[i] EXCEPT !.timeStatus = "active"]]
    ELSE [i \in 1..Len(s) |-> [s[i] EXCEPT !.timeStatus = TimeStatusOf(s[i], w, currentHour)]]

-----------------------------------------------------------------------------
(* generateRecommendations                                                 *)

\* generateRecommendations with the cut after 3 items
generateRecommendationsTopThree(w, p, t, d, g, currentHour) ==
    LET sorted == SortRecs(EmitRules(w, p, t, d, g))
        diverseRecs == applyCategoryDiversity(sorted)
        topRecs == Slice(diverseRecs, 3)
    IN  applyTimeStatus(topRecs, w, t, currentHour)

generateRecommendations(w, p, t, d, g, currentHour) ==
    LET sorted == SortRecs(EmitRules(w, p, t, d, g))
        diverseRecs == applyCategoryDiversity(sorted)
        topRecs == Slice(diverseRecs, 4)
    IN  applyTimeStatus(topRecs, w, t, currentHour)

\* the line-dry rule sorting weather.continuousDryingPeriods itself
WeatherAfterSortInPlace(w) ==
    [w EXCEPT !.continuousDryingPeriods = SortByScore(@)]

\* what the call leaves in the caller's weather object: filter() returns a new
\* array, so the in-place sort() of the line-dry rule reorders that copy
WeatherAfterCall(w) == w

-----------------------------------------------------------------------------
(* Input domains                                                           *)

Weather(t, dh, wind, rain, hum, sunny, drying, dow, sunsetHour) ==
    [date |-> dow, tempLow |-> t[1], avgTemp |-> t[2], tempHigh |-> t[3],
     windSpeedMph |-> wind, rainProbability |-> rain, avgHumidity |-> hum,
     sunnyHours |-> Len(sunny), dryingHours |-> dh, sunset |-> sunsetHour,
     sunnyPeriods |-> sunny, continuousDryingPeriods |-> drying]

Preferences(garden, ev, solar, tariff, temp, heating, water) ==
    [hasGarden |-> garden, hasEV |-> ev, hasSolar |-> solar,
     hasTimeOfUseTariff |-> tariff, preferredTemperature |-> temp,
     heatingType |-> heating, hotWaterSystem |-> water]

SunnyPeriod(h, rad) == [hour |-> h, temp |-> 15, solarRadiation |-> rad]
DryingPeriod(s, e, score) ==
    [startHour |-> s, endHour |-> e, duration |-> e - s + 1, avgScore |-> score]

\* <<tempLow, avgTemp, tempHigh>>
Temperatures ==
    {<<-2, 2, 4>>, <<-1, 6, 9>>, <<8, 12, 15>>,
     <<17, 19, 21>>, <<16, 23, 27>>, <<20, 27, 32>>}

HeatingTypes == {"gas", "electric", "heat-pump", "oil", "other"}

\* the sunny hours of a dull day and of a bright day
SunnyDays ==
    {<<>>,
     <<SunnyPeriod(10, 300), SunnyPeriod(11, 450), SunnyPeriod(12, 500),
       SunnyPeriod(13, 500)>>}

\* continuous drying periods whose durations add up to dryingHours
DryingDay(dh) ==
    IF dh = 0 THEN <<>>
    ELSE IF dh = 3 THEN <<DryingPeriod(11, 13, 55)>>
    ELSE <<DryingPeriod(9, 10, 45), DryingPeriod(13, 15, 70)>>

Weathers ==
    {Weather(t, dh, wind, rain, hum, sunny, DryingDay(dh), dow, 16) :
        t \in Temperatures, dh \in {0, 3, 5}, wind \in {10, 30}, rain \in {5, 80},
        hum \in {45, 65}, sunny \in SunnyDays, dow \in {3, 6}}

Prefs ==
    {Preferences(garden, ev, solar, tariff, 19, heating, water) :
        garden \in BOOLEAN, ev \in BOOLEAN, solar \in BOOLEAN, tariff \in BOOLEAN,
        heating \in HeatingTypes, water \in {"combi", "tank"}}

Grid(renewable, carbon) ==
    [present |-> TRUE, renewablePercent |-> renewable, carbonIntensity |-> carbon]

\* <<isToday, day, gridData>>
Modes ==
    {<<FALSE, "tomorrow", NoGrid>>, <<TRUE, "today", NoGrid>>,
     <<TRUE, "today", Grid(65, 90)>>, <<TRUE, "today", Grid(30, 120)>>}

\* Bounds of the lists of the time-status specification
MaxSunnyPeriods == 2
MaxDryingPeriods == 2

\* the strictly increasing index tuples of length n over 1..Len(pool)
Picks(pool, n) ==
    {f \in [1..n -> 1..Len(pool)] : \A i \in 1..n, j \in 1..n : i < j => f[i] < f[j]}

\* the chronological sub-lists of pool of length at most n
SubLists(pool, n) ==
    UNION {{[i \in 1..k |-> pool[f[i]]] : f \in Picks(pool, k)} : k \in 0..Min(n, Len(pool))}

SunnyPool ==
    <<SunnyPeriod(9, 300), SunnyPeriod(9, 500), SunnyPeriod(13, 300), SunnyPeriod(13, 500),
      SunnyPeriod(19, 300), SunnyPeriod(19, 500)>>

\* sunny periods come one per hour, in chronological order
SunnyLists ==
    {s \in SubLists(SunnyPool, MaxSunnyPeriods) :
        \A i \in 1..Len(s), j \in 1..Len(s) : i < j => s[i].hour < s[j].hour}

DryingPool == <<DryingPeriod(8, 9, 55), DryingPeriod(11, 13, 80), DryingPeriod(15, 16, 45)>>

DryingLists == SubLists(DryingPool, MaxDryingPeriods)

RECURSIVE SumDurations(_)
SumDurations(s) == IF s = <<>> THEN 0 ELSE Head(s).duration + SumDurations(Tail(s))

TimedWeathers ==
    {Weather(<<8, 12, 15>>, SumDurations(drying), 10, 5, 65, sunny, drying, 3, sunsetHour) :
        sunny \in SunnyLists, drying \in DryingLists, sunsetHour \in {16, 21}}

TimedPrefs ==
    {Preferences(garden, ev, solar, FALSE, 19, "gas", "combi") :
        garden \in BOOLEAN, ev \in BOOLEAN, solar \in BOOLEAN}

TimedModes == {<<FALSE, "tomorrow", NoGrid>>, <<TRUE, "today", NoGrid>>}

-----------------------------------------------------------------------------
(* One call of generateRecommendations                                     *)

InitOver(W, P, M, H) ==
    /\ weather \in W
    /\ prefs \in P
    /\ \E m \in M : isToday = m[1] /\ day = m[2] /\ gridData = m[3]
    /\ ukHour \in H
    /\ emitted = <<>>
    /\ recs = <<>>
    /\ phase = "ready"
    /\ heatingCheck = Unused /\ form = Unused
    /\ thermostat = Unused
    /\ hourScore = Unused
    /\ dayWeather = Unused

Init == InitOver(Weathers, Prefs, Modes, {12})

Call ==
    /\ phase = "ready"
    /\ emitted' = EmitRules(weather, prefs, isToday, day, gridData)
    /\ recs' = generateRecommendations(weather, prefs, isToday, day, gridData, ukHour)
    /\ weather' = WeatherAfterCall(weather)
    /\ phase' = "returned"
    /\ UNCHANGED <<prefs, isToday, day, gridData, ukHour>>
    /\ UNCHANGED <<heatingCheck, thermostat, hourScore, dayWeather, form>>

Next == Call

Spec == Init /\ [][Next]_vars

\* the same call over every hour of the day, sunset hour and list of periods
InitTimed == InitOver(TimedWeathers, TimedPrefs, TimedModes, 0..23)

SpecTimed == InitTimed /\ [][Next]_vars

\* the same call over the grid readings around the thresholds of the grid
\* rules, with and without gridData, for every pairing of isToday and day
GridWeathers ==
    {Weather(t, 3, 10, 5, 65, <<>>, DryingDay(3), 3, 16) :
        t \in {<<8, 12, 15>>, <<17, 19, 21>>}}

GridPrefs ==
    {Preferences(garden, FALSE, FALSE, tariff, 19, "gas", "combi") :
        garden \in BOOLEAN, tariff \in BOOLEAN}

GridReadings ==
    {NoGrid} \cup
    {Grid(renewable, carbon) :
        renewable \in {0, 30, 49, 50, 55, 59, 60, 65, 100},
        carbon \in {0, 1, 90, 149, 150, 200}}

GridModes ==
    {<<t, d, g>> : t \in BOOLEAN, d \in {"today", "tomorrow"}, g \in GridReadings}

\* the same call over days from frosty to hot, for every heating type;
\* avgTemp is Math.round((tempHigh + tempLow) / 2) as processDayWeather
\* computes it
TemperatureWeathers ==
    {Weather(<<low, (low + high + 1) \div 2, high>>, 3, 10, 5, 65, <<>>, DryingDay(3), 3, 16) :
        low \in {-4, -1, 0, 3}, high \in {3, 8, 11, 13, 20, 31}}

TemperaturePrefs ==
    {Preferences(FALSE, FALSE, FALSE, FALSE, 19, heating, "tank") : heating \in HeatingTypes}

InitTemperature == InitOver(TemperatureWeathers, TemperaturePrefs, TimedModes, {12})

SpecTemperature == InitTemperature /\ [][Next]_vars

\* the same call for an EV owner with solar panels, over sunny periods at
\* any time of the day
SolarPool ==
    <<SunnyPeriod(0, 300), SunnyPeriod(0, 500), SunnyPeriod(9, 300), SunnyPeriod(9, 500),
      SunnyPeriod(11, 300), SunnyPeriod(11, 500), SunnyPeriod(13, 300), SunnyPeriod(13, 500),
      SunnyPeriod(15, 300), SunnyPeriod(15, 500), SunnyPeriod(16, 300), SunnyPeriod(16, 500),
      SunnyPeriod(20, 300), SunnyPeriod(20, 500), SunnyPeriod(21, 300), SunnyPeriod(21, 500),
      SunnyPeriod(23, 300), SunnyPeriod(23, 500)>>

SolarLists ==
    {s \in SubLists(SolarPool, MaxSunnyPeriods) :
        \A i \in 1..Len(s), j \in 1..Len(s) : i < j => s[i].hour < s[j].hour}

SolarWeathers ==
    {Weather(<<8, 12, 15>>, 0, 10, 5, 65, sunny, <<>>, 3, 21) : sunny \in SolarLists}

SolarPrefs ==
    {Preferences(FALSE, TRUE, TRUE, FALSE, 19, heating, "tank") :
        heating \in {"gas", "electric"}}

InitSolar == InitOver(SolarWeathers, SolarPrefs, TimedModes, {12})

SpecSolar == InitSolar /\ [][Next]_vars

\* the same call for electric heating with solar panels, over days of five
\* sunny hours of which the brightest may lie inside or outside 11..15
PeakHours == <<9, 12, 14, 16, 17>>

PeakLists ==
    {[i \in 1..Len(PeakHours) |-> SunnyPeriod(PeakHours[i], r[i])] :
        r \in [1..Len(PeakHours) -> {250, 300, 500}]}

PeakWeathers ==
    {Weather(<<8, 12, 15>>, 0, 10, 5, 65, sunny, <<>>, 3, 21) : sunny \in PeakLists}

PeakPrefs ==
    {Preferences(FALSE, ev, TRUE, FALSE, 19, "electric", "tank") : ev \in BOOLEAN}

InitPeak == InitOver(PeakWeathers, PeakPrefs, TimedModes, {12})

SpecPeak == InitPeak /\ [][Next]_vars

InitGrid == InitOver(GridWeathers, GridPrefs, GridModes, {12})

SpecGrid == InitGrid /\ [][Next]_vars

-----------------------------------------------------------------------------
(* heatingUtils.ts: which hot water systems go with which heating type     *)

ArrayIncludes(a, x) == \E i \in 1..Len(a) : a[i] = x

getValidHotWaterOptionsOilCombi(heatingType) ==
    CASE heatingType = "gas" -> <<"combi", "tank", "other">>
      [] heatingType = "electric" -> <<"tank", "electric", "other">>
      [] heatingType = "heat-pump" -> <<"tank", "other">>
      [] heatingType = "oil" -> <<"combi", "tank", "other">>
      [] heatingType = "other" -> <<"combi", "tank", "electric", "other">>
      [] OTHER -> <<"combi", "tank", "electric", "other">>

getValidHotWaterOptions(heatingType) ==
    CASE heatingType = "gas" -> <<"combi", "tank", "other">>
      [] heatingType = "electric" -> <<"tank", "electric", "other">>
      [] heatingType = "heat-pump" -> <<"tank", "other">>
      [] heatingType = "oil" -> <<"tank", "other">>
      [] heatingType = "other" -> <<"combi", "tank", "electric", "other">>
      [] OTHER -> <<"combi", "tank", "electric", "other">>

isValidHeatingCombination(heatingType, hotWaterSystem) ==
    ArrayIncludes(getValidHotWaterOptions(heatingType), hotWaterSystem)

\* the arguments are plain strings: the values of the two select boxes, and
\* strings that name no heating type or hot water system
HeatingTypeInputs == HeatingTypes \cup {"solid-fuel", ""}
HotWaterInputs == {"combi", "tank", "electric", "other", "solar", ""}

\* the variables of the engine, in a specification of the other functions
EngineUnused ==
    /\ weather = Unused /\ prefs = Unused /\ isToday = Unused /\ day = Unused
    /\ gridData = Unused /\ ukHour = Unused /\ emitted = Unused /\ recs = Unused
    /\ phase = "unused"

engineVars == <<weather, prefs, isToday, day, gridData, ukHour, emitted, recs, phase>>

InitHeating ==
    /\ EngineUnused
    /\ heatingCheck \in
           {[heatingType |-> h, hotWaterSystem |-> w, called |-> {},
             validOptions |-> <<>>, isValid |-> FALSE] :
                h \in HeatingTypeInputs, w \in HotWaterInputs}
    /\ thermostat = Unused /\ hourScore = Unused /\ dayWeather = Unused /\ form = Unused

CallGetValidHotWaterOptions ==
    /\ heatingCheck # Unused
    /\ "getValidHotWaterOptions" \notin heatingCheck.called
    /\ heatingCheck' = [heatingCheck EXCEPT
                            !.called = @ \cup {"getValidHotWaterOptions"},
                            !.validOptions = getValidHotWaterOptions(heatingCheck.heatingType)]
    /\ UNCHANGED <<engineVars, thermostat, hourScore, dayWeather, form>>

CallIsValidHeatingCombination ==
    /\ heatingCheck # Unused
    /\ "isValidHeatingCombination" \notin heatingCheck.called
    /\ heatingCheck' = [heatingCheck EXCEPT
                            !.called = @ \cup {"isValidHeatingCombination"},
                            !.isValid = isValidHeatingCombination(heatingCheck.heatingType,
                                                                  heatingCheck.hotWaterSystem)]
    /\ UNCHANGED <<engineVars, thermostat, hourScore, dayWeather, form>>

NextHeating == CallGetValidHotWaterOptions \/ CallIsValidHeatingCombination

SpecHeating == InitHeating /\ [][NextHeating]_vars

-----------------------------------------------------------------------------
(* The heating fields of SetupForm and EditPreferences                     *)

\* the options of the heating type select
HeatingTypeOptions == {"gas", "electric", "heat-pump", "oil", "other"}

\* the options the hot water select can ever show
HotWaterOptions == {"combi", "tank", "electric", "other"}

\* the options the hot water select renders for a heating type
renderedHotWaterOptions(heatingType) ==
    {w \in HotWaterOptions : ArrayIncludes(getValidHotWaterOptions(heatingType), w)}

\* the body of the effect that leaves the hot water system as it is
autoResetKeeps(heatingType, currentHotWater) == currentHotWater

\* the body of the auto-reset effect: the value of hotWaterSystem after it
autoReset(heatingType, currentHotWater) ==
    LET validHotWaterOptions == getValidHotWaterOptions(heatingType)
    IN  IF ~ ArrayIncludes(validHotWaterOptions, currentHotWater)
        THEN validHotWaterOptions[1]
        ELSE currentHotWater

NoEffect == [ran |-> FALSE, heatingType |-> "", before |-> "", after |-> ""]
NoSubmission == [done |-> FALSE, heatingType |-> "", hotWaterSystem |-> ""]

\* a mounted form: its default values, the effect of the mount still to run
MountedForm(component, heatingType, hotWaterSystem) ==
    [component |-> component, heatingType |-> heatingType,
     hotWaterSystem |-> hotWaterSystem, effectPending |-> TRUE,
     lastEffect |-> NoEffect, submitted |-> NoSubmission]

\* SetupForm starts from gas and combi; EditPreferences starts from the
\* stored preferences, any heating type with any hot water system
InitForm ==
    /\ EngineUnused
    /\ heatingCheck = Unused /\ thermostat = Unused
    /\ hourScore = Unused /\ dayWeather = Unused
    /\ form \in {MountedForm("SetupForm", "gas", "combi")}
               \cup {MountedForm("EditPreferences", h, w) :
                        h \in HeatingTypeOptions, w \in HotWaterOptions}

\* the effect runs after the render that followed a change of heatingType
\* (and after the mount), before the next event of the user is handled
RunAutoReset ==
    /\ form.effectPending
    /\ form' = [form EXCEPT
                    !.hotWaterSystem = autoReset(form.heatingType, @),
                    !.effectPending = FALSE,
                    !.lastEffect = [ran |-> TRUE, heatingType |-> form.heatingType,
                                    before |-> form.hotWaterSystem,
                                    after |-> autoReset(form.heatingType,
                                                        form.hotWaterSystem)]]
    /\ UNCHANGED <<engineVars, heatingCheck, thermostat, hourScore, dayWeather>>

\* the user picks an option of the heating type select
SelectHeatingType ==
    /\ ~ form.effectPending
    /\ \E h \in HeatingTypeOptions :
           form' = [form EXCEPT !.heatingType = h,
                                !.effectPending = (h # form.heatingType)]
    /\ UNCHANGED <<engineVars, heatingCheck, thermostat, hourScore, dayWeather>>

\* the user picks one of the options the hot water select renders
SelectHotWaterSystem ==
    /\ ~ form.effectPending
    /\ \E w \in renderedHotWaterOptions(form.heatingType) :
           form' = [form EXCEPT !.hotWaterSystem = w]
    /\ UNCHANGED <<engineVars, heatingCheck, thermostat, hourScore, dayWeather>>

\* Start Again of SetupForm: reset() puts the default values back
StartAgain ==
    /\ ~ form.effectPending
    /\ form.component = "SetupForm"
    /\ form' = [form EXCEPT !.heatingType = "gas", !.hotWaterSystem = "combi",
                            !.effectPending = (form.heatingType # "gas")]
    /\ UNCHANGED <<engineVars, heatingCheck, thermostat, hourScore, dayWeather>>

\* onSubmit appends the pair of the form to the data it saves
Submit ==
    /\ ~ form.effectPending
    /\ form' = [form EXCEPT
                    !.submitted = [done |-> TRUE, heatingType |-> form.heatingType,
                                   hotWaterSystem |-> form.hotWaterSystem]]
    /\ UNCHANGED <<engineVars, heatingCheck, thermostat, hourScore, dayWeather>>

NextForm ==
    \/ RunAutoReset
    \/ SelectHeatingType
    \/ SelectHotWaterSystem
    \/ StartAgain
    \/ Submit

SpecForm == InitForm /\ [][NextForm]_vars

-----------------------------------------------------------------------------
(* The thermostat settings quoted by the gas and oil rules                 *)

\* Math.round(num / den) for den > 0: the nearest integer, halves upwards
MathRound(num, den) == (2 * num + den) \div (2 * den)

\* Math.round(t * 2) / 2 on a temperature in tenths of a degree
RoundToHalfDegree(t) == 5 * MathRound(2 * t, 10)

\* Math.max(15, Math.round((prefs.preferredTemperature - tempReduction) * 2) / 2)
suggestedTemp(preferredTemperature, tempReduction) ==
    Max(150, RoundToHalfDegree(preferredTemperature - tempReduction))

preheatTemp(preferredTemperature) == Min(250, preferredTemperature + 10)

nightTempUnfloored(preferredTemperature) == preferredTemperature - 10

nightTemp(preferredTemperature) == Max(150, preferredTemperature - 10)

batchTemp(preferredTemperature) == Min(250, preferredTemperature + 10)

\* the settings the descriptions of the rules of one heating type quote
\* (tempReduction is 1.5 for gas and 2 for oil)
SuggestedSettings(heatingType, preferredTemperature) ==
    IF heatingType = "gas"
    THEN [mild |-> suggestedTemp(preferredTemperature, 15),
          preheat |-> preheatTemp(preferredTemperature),
          night |-> nightTemp(preferredTemperature)]
    ELSE [mild |-> suggestedTemp(preferredTemperature, 20),
          batch |-> batchTemp(preferredTemperature)]

\* z.number().min(15).max(25), in tenths of a degree
PreferredTemperatures == 150..250

InitThermostat ==
    /\ EngineUnused
    /\ thermostat \in
           {[heatingType |-> h, preferredTemperature |-> t, quoted |-> FALSE,
             settings |-> [mild |-> 0]] :
                h \in {"gas", "oil"}, t \in PreferredTemperatures}
    /\ heatingCheck = Unused /\ hourScore = Unused /\ dayWeather = Unused /\ form = Unused

QuoteSettings ==
    /\ thermostat # Unused
    /\ ~ thermostat.quoted
    /\ thermostat' = [thermostat EXCEPT
                          !.quoted = TRUE,
                          !.settings = SuggestedSettings(thermostat.heatingType,
                                                         thermostat.preferredTemperature)]
    /\ UNCHANGED <<engineVars, heatingCheck, hourScore, dayWeather, form>>

NextThermostat == QuoteSettings

SpecThermostat == InitThermostat /\ [][NextThermostat]_vars

-----------------------------------------------------------------------------
(* api.ts: the drying score of one hourly sample                           *)

\* the score 1.0; every term below is a whole number of 1/ScoreUnit
ScoreUnit == 120000

\* a reading the forecast does not hold (undefined or null)
Absent == -9999

\* x || d on a reading: an absent one and zero are falsy
OrDefault(x, d) == IF x = Absent \/ x = 0 THEN d ELSE x

\* hourData.windSpeed * 0.621371, in millionths of a mile per hour
windSpeedMph(windSpeed) == windSpeed * 621371

humidityFactorUnbounded(humidity) ==
    IF humidity < 50 THEN 48000
    ELSE IF humidity < 70 THEN (70 - humidity) * 2400
    ELSE (85 - humidity) * 1600

\* 0.4 | 0.4 * (1 - (humidity - 50) / 20) | 0.2 * (1 - (humidity - 70) / 15)
humidityFactor(humidity) ==
    IF humidity < 50 THEN 48000
    ELSE IF humidity < 70 THEN (70 - humidity) * 2400
    ELSE IF humidity < 85 THEN (85 - humidity) * 1600
    ELSE 0

\* 0.3 | 0.3 * (solarRadiation / 400) | 0.15 * (solarRadiation / 200)
solarFactor(solarRadiation) ==
    IF solarRadiation > 400 THEN 36000
    ELSE IF solarRadiation > 200 THEN 90 * solarRadiation
    ELSE IF solarRadiation > 100 THEN 90 * solarRadiation
    ELSE 0

\* 0.15 | 0.1 | 0.05
windFactor(mph) ==
    IF mph >= 8000000 /\ mph <= 12000000 THEN 18000
    ELSE IF mph >= 5000000 /\ mph <= 20000000 THEN 12000
    ELSE IF mph > 20000000 /\ mph <= 25000000 THEN 6000
    ELSE 0

\* 0.1 | (0.1 * (temp - 15)) / 6 | (0.05 * (temp - 5)) / 10
temperatureFactor(temp) ==
    IF temp >= 21 THEN 12000
    ELSE IF temp >= 15 THEN 2000 * (temp - 15)
    ELSE IF temp >= 5 THEN 600 * (temp - 5)
    ELSE 0

\* 0.05 * (1 - distanceFrom3pm / 5) | 0.03 | 0.02
timeOfDayFactor(hour) ==
    IF hour >= 12 /\ hour <= 17 THEN 6000 - 1200 * Abs(hour - 15)
    ELSE IF hour >= 10 /\ hour < 12 THEN 3600
    ELSE IF hour > 17 /\ hour <= 19 THEN 2400
    ELSE 0

\* the score accumulated before the rain penalty
SumOfFactors(hourData) ==
    humidityFactor(hourData.humidity)
    + solarFactor(OrDefault(hourData.solarRadiation, 0))
    + windFactor(windSpeedMph(hourData.windSpeed))
    + temperatureFactor(hourData.temp)
    + timeOfDayFactor(hourData.hour)

calculateDryingScoreCutoffFrom40(hourData) ==
    LET rainProb == OrDefault(hourData.rainProb, 0)
        score == SumOfFactors(hourData)
    IN  IF rainProb >= 40 THEN 0
        ELSE Min(IF rainProb > 20 /\ rainProb <= 40 THEN (score * 7) \div 10 ELSE score,
                 ScoreUnit)

calculateDryingScore(hourData) ==
    LET rainProb == OrDefault(hourData.rainProb, 0)
        score == SumOfFactors(hourData)
    IN  IF rainProb > 40 THEN 0
        ELSE Min(IF rainProb > 20 /\ rainProb <= 40 THEN (score * 7) \div 10 ELSE score,
                 ScoreUnit)

\* hour is what new Date(hourData.time).getHours() returns; windSpeed is in km/h
HourData(t, h, w, s, r, hr) ==
    [temp |-> t, humidity |-> h, windSpeed |-> w, solarRadiation |-> s,
     rainProb |-> r, hour |-> hr]

\* samples on both sides of every threshold of the score
HourSamples ==
    {HourData(t, h, w, s, r, hr) :
        t \in {-3, 5, 15, 18, 21}, h \in {30, 50, 60, 70, 84, 85, 100},
        w \in {0, 9, 13, 20, 33, 41}, s \in {0, 101, 200, 201, 400, 401},
        r \in {0, 20, 21, 40, 41}, hr \in {3, 10, 12, 15, 17, 18}}

InitScore ==
    /\ EngineUnused
    /\ hourScore \in {[hourData |-> d, scored |-> FALSE, score |-> 0] : d \in HourSamples}
    /\ heatingCheck = Unused /\ thermostat = Unused /\ dayWeather = Unused /\ form = Unused

CallCalculateDryingScore ==
    /\ hourScore # Unused
    /\ ~ hourScore.scored
    /\ hourScore' = [hourScore EXCEPT
                         !.scored = TRUE,
                         !.score = calculateDryingScore(hourScore.hourData)]
    /\ UNCHANGED <<engineVars, heatingCheck, thermostat, dayWeather, form>>

NextScore == CallCalculateDryingScore

SpecScore == InitScore /\ [][NextScore]_vars

\* two samples of the same hour that differ in humidity only: hourData and
\* the same reading at the higher humidity damper
InitHumidity ==
    /\ EngineUnused
    /\ hourScore \in
           {[hourData |-> HourData(18, h1, 13, s, r, 12), scored |-> FALSE, score |-> 0,
             damper |-> h2, damperScored |-> FALSE, damperScore |-> 0] :
                h1 \in 40..90, h2 \in 40..90, s \in {0, 401}, r \in {0, 30}}
    /\ hourScore.hourData.humidity < hourScore.damper
    /\ heatingCheck = Unused /\ thermostat = Unused /\ dayWeather = Unused /\ form = Unused

CallCalculateDryingScoreDamper ==
    /\ hourScore # Unused
    /\ ~ hourScore.damperScored
    /\ hourScore' =
           [hourScore EXCEPT
               !.damperScored = TRUE,
               !.damperScore = calculateDryingScore(
                                   [hourScore.hourData EXCEPT !.humidity = hourScore.damper])]
    /\ UNCHANGED <<engineVars, heatingCheck, thermostat, dayWeather, form>>

NextHumidity == CallCalculateDryingScore \/ CallCalculateDryingScoreDamper

SpecHumidity == InitHumidity /\ [][NextHumidity]_vars

-----------------------------------------------------------------------------
(* api.ts: the drying periods and the snapshot of one day                  *)

\* Minimum score to be considered "good enough": 0.4
threshold == 48000

RECURSIVE SumField(_, _)
SumField(hours, field) ==
    IF hours = <<>> THEN 0 ELSE Head(hours)[field] + SumField(Tail(hours), field)

\* the period pushed for a non-empty run; avgScore is the fraction num / den
\* of ScoreUnit
PeriodOf(currentPeriod) ==
    [startHour |-> currentPeriod[1].hour,
     endHour |-> currentPeriod[Len(currentPeriod)].hour,
     hours |-> currentPeriod,
     avgScore |-> [num |-> SumField(currentPeriod, "dryingScore"),
                   den |-> Len(currentPeriod)],
     duration |-> Len(currentPeriod)]

\* the for loop: <<periods, currentPeriod>> after the samples from i on
RECURSIVE ScanHours(_, _, _, _)
ScanHours(hoursWithScore, i, periods, currentPeriod) ==
    IF i > Len(hoursWithScore) THEN <<periods, currentPeriod>>
    ELSE IF hoursWithScore[i].dryingScore >= threshold
         THEN ScanHours(hoursWithScore, i + 1, periods,
                        Append(currentPeriod, hoursWithScore[i]))
         ELSE IF Len(currentPeriod) > 0
              THEN ScanHours(hoursWithScore, i + 1,
                             Append(periods, PeriodOf(currentPeriod)), <<>>)
              ELSE ScanHours(hoursWithScore, i + 1, periods, currentPeriod)

findContinuousDryingPeriodsNoTail(hoursWithScore) ==
    ScanHours(hoursWithScore, 1, <<>>, <<>>)[1]

findContinuousDryingPeriods(hoursWithScore) ==
    LET scan == ScanHours(hoursWithScore, 1, <<>>, <<>>)
    IN  IF Len(scan[2]) > 0 THEN Append(scan[1], PeriodOf(scan[2])) ELSE scan[1]

\* the samples of the day, with the defaults of the missing readings
dayHourlyData(hourly) ==
    [i \in 1..Len(hourly) |->
        [hourly[i] EXCEPT !.rainProb = OrDefault(@, 0),
                          !.solarRadiation = OrDefault(@, 0),
                          !.humidity = OrDefault(@, 50)]]

IsSunny(h) == h.solarRadiation > 200

sunnyPeriodsOf(hourly) ==
    LET sunny == SelectSeq(hourly, IsSunny)
    IN  [i \in 1..Len(sunny) |->
            [hour |-> sunny[i].hour, temp |-> sunny[i].temp,
             solarRadiation |-> sunny[i].solarRadiation]]

hoursWithDryingScore(hourly) ==
    [i \in 1..Len(hourly) |->
        [hour |-> hourly[i].hour, temp |-> hourly[i].temp,
         humidity |-> hourly[i].humidity,
         dryingScore |-> calculateDryingScore(hourly[i])]]

filteredHoursAfterNow(period, today, currentUKHour) ==
    IF today /\ currentUKHour >= 0
    THEN LET Remains(h) == h.hour > currentUKHour IN SelectSeq(period.hours, Remains)
    ELSE period.hours

\* period.hours.filter((h) => h.hour >= currentUKHour), today only
filteredHours(period, today, currentUKHour) ==
    IF today /\ currentUKHour >= 0
    THEN LET Remains(h) == h.hour >= currentUKHour IN SelectSeq(period.hours, Remains)
    ELSE period.hours

\* the map and filter over continuousDryingPeriodsRaw; avgScore is in percent
RECURSIVE transformPeriods(_, _, _)
transformPeriods(periodsRaw, today, currentUKHour) ==
    IF periodsRaw = <<>> THEN <<>>
    ELSE LET period == Head(periodsRaw)
             hours == filteredHours(period, today, currentUKHour)
             rest == transformPeriods(Tail(periodsRaw), today, currentUKHour)
         IN  IF Len(hours) = 0 THEN rest
             ELSE <<[startHour |-> hours[1].hour,
                     endHour |-> hours[Len(hours)].hour,
                     duration |-> Len(hours),
                     avgScore |-> MathRound(100 * period.avgScore.num,
                                            ScoreUnit * period.avgScore.den),
                     avgTemp |-> MathRound(SumField(hours, "temp"), Len(hours)),
                     avgHumidity |-> MathRound(SumField(hours, "humidity"), Len(hours))]>>
                  \o rest

processDayWeatherUntrimmedTotal(hourly, today, hourNow) ==
    LET data == dayHourlyData(hourly)
        periodsRaw == findContinuousDryingPeriods(hoursWithDryingScore(data))
        currentUKHour == IF today THEN hourNow ELSE -1
        periods == transformPeriods(periodsRaw, today, currentUKHour)
    IN  [sunnyHours |-> Len(sunnyPeriodsOf(data)),
         dryingHours |-> SumDurations(periodsRaw),
         sunnyPeriods |-> sunnyPeriodsOf(data),
         continuousDryingPeriods |-> periods]

\* the sunshine and drying fields of the snapshot; hourNow is what
\* getCurrentUKHour() returns
processDayWeather(hourly, today, hourNow) ==
    LET data == dayHourlyData(hourly)
        periodsRaw == findContinuousDryingPeriods(hoursWithDryingScore(data))
        currentUKHour == IF today THEN hourNow ELSE -1
        periods == transformPeriods(periodsRaw, today, currentUKHour)
    IN  [sunnyHours |-> Len(sunnyPeriodsOf(data)),
         dryingHours |-> SumDurations(periods),
         sunnyPeriods |-> sunnyPeriodsOf(data),
         continuousDryingPeriods |-> periods]

\* Bounds of the day: the samples are those of the consecutive hours from
\* FirstHour on
MaxHours == 5
FirstHour == 10

\* a good drying hour with sun, a good drying hour under cloud, a sunny hour
\* with rain, and a damp still hour: <<temp, humidity, windSpeed,
\* solarRadiation, rainProb>>
HourKinds == {<<18, 45, 13, 450, 5>>, <<12, 60, 13, 150, 0>>,
              <<16, 55, 13, 500, 60>>, <<8, 90, 3, 50, 10>>}

HourlyLists ==
    UNION {{[i \in 1..n |->
               HourData(k[i][1], k[i][2], k[i][3], k[i][4], k[i][5], FirstHour + i - 1)] :
            k \in [1..n -> HourKinds]} : n \in 1..MaxHours}

NoSnapshot ==
    [sunnyHours |-> 0, dryingHours |-> 0, sunnyPeriods |-> <<>>,
     continuousDryingPeriods |-> <<>>]

\* tomorrow's snapshot, or today's at an hour before, within or after the
\* samples
InitDay ==
    /\ EngineUnused
    /\ dayWeather \in
           {[hourly |-> h, isToday |-> t, ukHour |-> u, processed |-> FALSE,
             hoursWithScore |-> <<>>, periodsRaw |-> <<>>, snapshot |-> NoSnapshot] :
                h \in HourlyLists, t \in BOOLEAN,
                u \in {FirstHour - 1, FirstHour + 1, FirstHour + 2, FirstHour + 4,
                       FirstHour + MaxHours}}
    /\ heatingCheck = Unused /\ thermostat = Unused /\ hourScore = Unused /\ form = Unused

CallProcessDayWeather ==
    /\ dayWeather # Unused
    /\ ~ dayWeather.processed
    /\ dayWeather' =
           [dayWeather EXCEPT
               !.processed = TRUE,
               !.hoursWithScore = hoursWithDryingScore(dayHourlyData(dayWeather.hourly)),
               !.periodsRaw = findContinuousDryingPeriods(
                                  hoursWithDryingScore(dayHourlyData(dayWeather.hourly))),
               !.snapshot = processDayWeather(dayWeather.hourly, dayWeather.isToday,
                                              dayWeather.ukHour)]
    /\ UNCHANGED <<engineVars, heatingCheck, thermostat, hourScore, form>>

NextDay == CallProcessDayWeather

SpecDay == InitDay /\ [][NextDay]_vars

\* days of one or two samples whose humidity and solar radiation may be
\* absent, zero, or outside 0..100% and below 0 W/m2
OddReadings ==
    {HourData(21, h, 13, s, 0, FirstHour) :
        h \in {Absent, -5, 0, 30, 50, 100, 120}, s \in {Absent, -10, 0, 450}}

InitOdd ==
    /\ EngineUnused
    /\ dayWeather \in
           {[hourly |-> h, isToday |-> t, ukHour |-> FirstHour, processed |-> FALSE,
             hoursWithScore |-> <<>>, periodsRaw |-> <<>>, snapshot |-> NoSnapshot] :
                h \in {<<a>> : a \in OddReadings}
                      \cup {<<a, [b EXCEPT !.hour = FirstHour + 1]>> :
                               a \in OddReadings, b \in OddReadings},
                t \in BOOLEAN}
    /\ heatingCheck = Unused /\ thermostat = Unused /\ hourScore = Unused /\ form = Unused

SpecOdd == InitOdd /\ [][NextDay]_vars

-----------------------------------------------------------------------------
(* Properties                                                              *)

Returned == phase = "returned"

Ids(s) == {s[i].id : i \in 1..Len(s)}

CountCategory(s, c) == Cardinality({i \in 1..Len(s) : s[i].category = c})

\* what the three capped passes select from the sorted list of the call
CappedSelection == CappedPasses(SortRecs(emitted)).result

\* C1: in the returned list the priority rank (high = 0 < medium = 1 < low = 2)
\* never decreases from one item to the next.
PriorityOrdered ==
    Returned =>
        \A i \in 1..(Len(recs) - 1) :
            priorityOrder(recs[i].priority) <= priorityOrder(recs[i + 1].priority)

OutputSize == Returned => Len(recs) = Min(4, Len(emitted))

\* the capped passes fell short of 4 and the relaxed fill made it up
FillMadeUpShortfall ==
    /\ Returned
    /\ Len(emitted) >= 4
    /\ Len(CappedSelection) < 4
    /\ Len(recs) = 4

TimeStatusDomain ==
    Returned =>
        \A i \in 1..Len(recs) :
            /\ recs[i].timeStatus \in {"active", "passed"}
            /\ recs[i].timeStatus = "passed" =>
                  isToday /\ recs[i].id \in {"line-dry", "ev-solar-charging"}
            /\ ~isToday => recs[i].timeStatus = "active"

\* a request for tomorrow made late in the evening: line-dry stays active
LateCallForTomorrow ==
    /\ Returned
    /\ ~isToday
    /\ ukHour >= weather.sunset
    /\ \E i \in 1..Len(recs) : recs[i].id = "line-dry" /\ recs[i].timeStatus = "active"

\* C7: for a today request, ev-solar-charging is passed exactly when the
\* current UK hour has reached the end of its best-solar window, the
\* 24-hour value start hour + 3.
EvSolarPassedAtWindowEnd ==
    Returned /\ isToday =>
        \A i \in 1..Len(recs) :
            recs[i].id = "ev-solar-charging" =>
                (recs[i].timeStatus = "passed"
                    <=> ukHour >= BestSolarHour(weather.sunnyPeriods) + 3)

\* C8: for a today request, line-dry is passed exactly when the current UK
\* hour is at least the sunset hour minus 2, and active otherwise.
LineDryPassedNearSunset ==
    Returned /\ isToday =>
        \A i \in 1..Len(recs) :
            recs[i].id = "line-dry" =>
                /\ recs[i].timeStatus = "passed" <=> ukHour >= weather.sunset - 2
                /\ recs[i].timeStatus = "active" <=> ukHour < weather.sunset - 2

\* line-dry passes in the very hour sunset - 2
LineDryPassesTwoHoursBeforeSunset ==
    /\ Returned
    /\ isToday
    /\ ukHour = weather.sunset - 2
    /\ \E i \in 1..Len(recs) : recs[i].id = "line-dry" /\ recs[i].timeStatus = "passed"

\* C9: line-dry is in the returned list exactly when hasGarden, dryingHours >= 3
\* and windSpeedMph < 25 hold, with priority medium if dryingHours < 5 and
\* high otherwise.
LineDryPresence ==
    Returned =>
        LET fires == prefs.hasGarden /\ weather.dryingHours >= 3 /\ weather.windSpeedMph < 25
        IN  /\ fires =>
                \E i \in 1..Len(recs) :
                    /\ recs[i].id = "line-dry"
                    /\ recs[i].priority =
                          IF weather.dryingHours < 5 THEN "medium" ELSE "high"
            /\ ~fires => "line-dry" \notin Ids(recs)

\* a medium line-dry kept as the last of 4 items while other rules were cut
MediumLineDryKeptLast ==
    /\ Returned
    /\ Len(emitted) > 4
    /\ recs[4].id = "line-dry"
    /\ recs[4].priority = "medium"

TariffIds ==
    {"ev-offpeak-charging", "batch-hot-water", "tank-mild-night", "tank-cold-night",
     "off-peak-appliances"}

\* C10: without a time-of-use tariff none of the tariff recommendations is
\* returned; with one the rules emit off-peak-appliances, so the returned
\* list is not empty.
TariffGating ==
    Returned =>
        /\ ~prefs.hasTimeOfUseTariff => Ids(recs) \cap TariffIds = {}
        /\ prefs.hasTimeOfUseTariff =>
              "off-peak-appliances" \in Ids(emitted) /\ Len(recs) > 0

\* the no-signal case: off-peak-appliances is the only rule that fires
OnlyOffPeakAppliances ==
    /\ Returned
    /\ prefs.hasTimeOfUseTariff
    /\ Ids(emitted) = {"off-peak-appliances"}
    /\ Ids(recs) = {"off-peak-appliances"}

GridIds == {"grid-clean-now", "grid-low-carbon"}

\* C11: a grid item is returned only for a call with isToday, day 'today' and
\* gridData; in such a call grid-clean-now is emitted exactly when
\* renewablePercent >= 50, with priority high from 60 and medium below, and
\* grid-low-carbon exactly when 0 < carbonIntensity < 150 and
\* renewablePercent < 50; the two are never emitted together.
GridRuleConditions ==
    Returned =>
        LET live == isToday /\ day = "today" /\ gridData.present
            r == gridData.renewablePercent
            c == gridData.carbonIntensity
        IN  /\ (Ids(recs) \cap GridIds # {} => live)
            /\ ("grid-clean-now" \in Ids(emitted) <=> live /\ r >= 50)
            /\ \A i \in 1..Len(emitted) :
                   emitted[i].id = "grid-clean-now" =>
                       emitted[i].priority = (IF r >= 60 THEN "high" ELSE "medium")
            /\ ("grid-low-carbon" \in Ids(emitted) <=> live /\ c > 0 /\ c < 150 /\ r < 50)
            /\ ~ (GridIds \subseteq Ids(emitted))

\* a reading of 59% renewable returns grid-clean-now at medium priority
GridCleanNowMedium ==
    /\ Returned
    /\ gridData.present /\ gridData.renewablePercent = 59
    /\ \E i \in 1..Len(recs) : recs[i].id = "grid-clean-now" /\ recs[i].priority = "medium"

\* the compatibility table as the specification words it
HotWaterTable(h) ==
    CASE h = "gas" -> <<"combi", "tank", "other">>
      [] h = "electric" -> <<"tank", "electric", "other">>
      [] h \in {"heat-pump", "oil"} -> <<"tank", "other">>
      [] OTHER -> <<"combi", "tank", "electric", "other">>

\* C12: getValidHotWaterOptions returns combi, tank, other for gas; tank,
\* electric, other for electric; tank, other for heat-pump and for oil; all
\* four systems for 'other' and for any unrecognised type; and
\* isValidHeatingCombination is true exactly when the hot water system is in
\* that list.
HotWaterOptionsAsTabled ==
    heatingCheck # Unused =>
        LET table == HotWaterTable(heatingCheck.heatingType)
        IN  /\ ("getValidHotWaterOptions" \in heatingCheck.called =>
                    heatingCheck.validOptions = table)
            /\ ("isValidHeatingCombination" \in heatingCheck.called =>
                    (heatingCheck.isValid <=>
                        heatingCheck.hotWaterSystem \in {table[i] : i \in 1..Len(table)}))

\* an oil boiler with a combi system has been checked and found invalid
OilCombiRejected ==
    /\ heatingCheck # Unused
    /\ heatingCheck.heatingType = "oil" /\ heatingCheck.hotWaterSystem = "combi"
    /\ heatingCheck.called = {"getValidHotWaterOptions", "isValidHeatingCombination"}
    /\ heatingCheck.validOptions = <<"tank", "other">>
    /\ heatingCheck.isValid = FALSE

\* the multiple of half a degree nearest to t (t in tenths of a degree)
NearestHalfDegree(t) ==
    CHOOSE m \in {5 * k : k \in 0..80} :
        \A o \in {5 * k : k \in 0..80} : Abs(m - t) <= Abs(o - t)

InRange(t) == 150 <= t /\ t <= 250

\* C13: the gas rules quote max(15, pref - 1.5 to the nearest 0.5),
\* min(25, pref + 1) and max(15, pref - 1), the oil rules
\* max(15, pref - 2 to the nearest 0.5) and min(25, pref + 1); for every
\* preferred temperature from 15 to 25 in steps of 0.5 each quoted value is
\* within 15..25, the mild-weather and night values are at most the
\* preference and the preheat and batch values at least the preference.
SuggestedTemperaturesInRange ==
    (thermostat # Unused /\ thermostat.quoted /\ thermostat.preferredTemperature % 5 = 0) =>
        LET pref == thermostat.preferredTemperature
            q == thermostat.settings
        IN  IF thermostat.heatingType = "gas"
            THEN /\ q.mild = Max(150, NearestHalfDegree(pref - 15))
                 /\ q.preheat = Min(250, pref + 10)
                 /\ q.night = Max(150, pref - 10)
                 /\ InRange(q.mild) /\ InRange(q.preheat) /\ InRange(q.night)
                 /\ q.mild <= pref /\ q.night <= pref /\ q.preheat >= pref
            ELSE /\ q.mild = Max(150, NearestHalfDegree(pref - 20))
                 /\ q.batch = Min(250, pref + 10)
                 /\ InRange(q.mild) /\ InRange(q.batch)
                 /\ q.mild <= pref /\ q.batch >= pref

\* a preference of 15 degrees with gas heating: the night setting is held at
\* the 15-degree floor and the mild-weather setting too
NightSettingFloored ==
    /\ thermostat # Unused /\ thermostat.quoted
    /\ thermostat.heatingType = "gas" /\ thermostat.preferredTemperature = 150
    /\ thermostat.settings.night = 150 /\ thermostat.settings.mild = 150

Scored == hourScore # Unused /\ hourScore.scored

\* C15: calculateDryingScore is 0 for a rain probability above 40; up to 40
\* there is no cutoff: above 20 the result is 0.7 times the sum of the five
\* factors, and up to 20 it is that sum itself.
RainRule ==
    Scored =>
        LET rain == hourScore.hourData.rainProb
            sum == SumOfFactors(hourScore.hourData)
        IN  /\ (rain > 40 => hourScore.score = 0)
            /\ (rain > 20 /\ rain <= 40 => 10 * hourScore.score = 7 * sum)
            /\ (rain <= 20 => hourScore.score = sum)

\* a sample at exactly 40% rain keeps 0.7 of a positive sum
RainAtFortyScaled ==
    /\ Scored
    /\ hourScore.hourData.rainProb = 40
    /\ hourScore.score > 0
    /\ 10 * hourScore.score = 7 * SumOfFactors(hourScore.hourData)

\* C16: whatever the sample, calculateDryingScore returns a value from 0 to 1.
ScoreInUnitRange == Scored => hourScore.score >= 0 /\ hourScore.score <= ScoreUnit

\* a dry, sunny, breezy, warm sample at 3pm scores exactly 1
PerfectScoreReached ==
    /\ Scored
    /\ hourScore.hourData.rainProb = 0 /\ hourScore.hourData.hour = 15
    /\ hourScore.score = ScoreUnit

Processed == dayWeather # Unused /\ dayWeather.processed

\* the samples of the day whose drying score reaches the threshold
GoodSamples ==
    LET data == dayHourlyData(dayWeather.hourly)
    IN  {i \in 1..Len(data) : calculateDryingScore(data[i]) >= threshold}

\* the maximal runs a..b of consecutive samples that are all in good
MaximalRuns(good, n) ==
    {<<a, b>> \in (1..n) \X (1..n) :
        /\ a <= b
        /\ (a..b) \subseteq good
        /\ (a - 1) \notin good
        /\ (b + 1) \notin good}

\* C14: in every snapshot dryingHours is the sum of the durations of the
\* continuous drying periods, and sunnyHours is the number of sunny periods,
\* which is the number of samples of the day with solar radiation above 200
\* whatever their rain probability, and at most 24.
SnapshotTotals ==
    Processed =>
        LET snap == dayWeather.snapshot
        IN  /\ snap.dryingHours = SumDurations(snap.continuousDryingPeriods)
            /\ snap.sunnyHours = Len(snap.sunnyPeriods)
            /\ snap.sunnyHours =
                   Cardinality({i \in 1..Len(dayWeather.hourly) :
                                   dayWeather.hourly[i].solarRadiation > 200})
            /\ snap.sunnyHours <= 24

\* today's snapshot after some good hours have passed: fewer drying hours
\* than the raw periods hold, and a sunny hour that is too wet to dry in
TrimmedDayWithWetSun ==
    /\ Processed
    /\ dayWeather.isToday
    /\ dayWeather.snapshot.dryingHours > 0
    /\ dayWeather.snapshot.dryingHours < SumDurations(dayWeather.periodsRaw)
    /\ \E i \in 1..Len(dayWeather.hourly) :
           dayWeather.hourly[i].solarRadiation > 200 /\ dayWeather.hourly[i].rainProb > 40

\* C17: findContinuousDryingPeriods returns, in chronological order, exactly
\* the maximal runs of consecutive samples whose score is at least 0.4: each
\* period starts and ends at the hours of the first and last sample of its
\* run, its duration is the number of samples of the run, and its hours are
\* the samples of the run.
PeriodsAreMaximalRuns ==
    Processed =>
        LET periods == dayWeather.periodsRaw
            IndexOf(hour) == hour - FirstHour + 1
            runs == MaximalRuns(GoodSamples, Len(dayWeather.hourly))
        IN  /\ {<<IndexOf(periods[k].startHour), IndexOf(periods[k].endHour)>> :
                    k \in 1..Len(periods)} = runs
            /\ Len(periods) = Cardinality(runs)
            /\ \A k \in 1..(Len(periods) - 1) :
                   periods[k].endHour + 1 < periods[k + 1].startHour
            /\ \A k \in 1..Len(periods) :
                   /\ periods[k].duration = periods[k].endHour - periods[k].startHour + 1
                   /\ periods[k].duration = Len(periods[k].hours)
                   /\ \A j \in 1..Len(periods[k].hours) :
                          /\ periods[k].hours[j].hour = periods[k].startHour + j - 1
                          /\ periods[k].hours[j].dryingScore >= threshold

\* scores below, above, above, below, above the threshold give two periods:
\* the second and third sample, and the fifth
TwoRunsFound ==
    /\ Processed
    /\ Len(dayWeather.hourly) = 5
    /\ GoodSamples = {2, 3, 5}
    /\ Len(dayWeather.periodsRaw) = 2
    /\ dayWeather.periodsRaw[1].startHour = FirstHour + 1
    /\ dayWeather.periodsRaw[1].endHour = FirstHour + 2
    /\ dayWeather.periodsRaw[2].startHour = FirstHour + 4
    /\ dayWeather.periodsRaw[2].duration = 1

\* every personalised item of the list s stands before every other item
PersonalisedLead(s) ==
    \A i \in 1..Len(s), j \in 1..Len(s) :
        (i < j /\ s[j].isPersonalised) => s[i].isPersonalised

\* the list s holds an item that is not personalised, and every emitted
\* personalised item that s lacks is of a category with 2 items in s
MissingOnlyByCap(s) ==
    (\E i \in 1..Len(s) : ~ s[i].isPersonalised) =>
        \A k \in 1..Len(emitted) :
            (emitted[k].isPersonalised /\ emitted[k].id \notin Ids(s)) =>
                CountCategory(s, emitted[k].category) >= 2

\* C18: the capped passes select a non-personalised item only after every
\* personalised item was selected or rejected by the limit of 2 per category;
\* a returned list made without the relaxed fill has its personalised items
\* before the others; and a personalised item missing from a returned list
\* that holds a non-personalised item is of a category with 2 items in it.
PersonalisedBeforeOthers ==
    Returned =>
        /\ PersonalisedLead(CappedSelection)
        /\ MissingOnlyByCap(CappedSelection)
        /\ (Len(CappedSelection) >= 4 => PersonalisedLead(recs))
        /\ MissingOnlyByCap(recs)

\* a returned list made without the fill that holds a non-personalised item
\* while an emitted personalised item was left out
PersonalisedLeftOutByCap ==
    /\ Returned
    /\ Len(CappedSelection) >= 4
    /\ \E i \in 1..Len(recs) : ~ recs[i].isPersonalised
    /\ \E k \in 1..Len(emitted) :
           emitted[k].isPersonalised /\ emitted[k].id \notin Ids(recs)

HeatPumpInFrost == prefs.heatingType = "heat-pump" /\ weather.tempLow < 0

HeatPumpOptimal == weather.avgTemp >= 5 /\ weather.avgTemp <= 15

\* C19 as stated: heat-pump-cold-weather is emitted whenever the heating is a
\* heat pump and tempLow < 0, whether or not heat-pump-optimal fires.
ColdWeatherWheneverFrost ==
    (Returned /\ HeatPumpInFrost) => "heat-pump-cold-weather" \in Ids(emitted)

\* C19, amended: heat-pump-cold-weather is emitted exactly when the heating
\* is a heat pump, tempLow < 0 and heat-pump-optimal does not fire
\* (avgTemp outside 5..15); with tempLow -1 and avgTemp 6 only
\* heat-pump-optimal is emitted.
ColdWeatherUnlessOptimal ==
    Returned =>
        /\ ("heat-pump-cold-weather" \in Ids(emitted) <=> HeatPumpInFrost /\ ~ HeatPumpOptimal)
        /\ ((HeatPumpInFrost /\ HeatPumpOptimal) =>
                "heat-pump-optimal" \in Ids(emitted)
                /\ "heat-pump-cold-weather" \notin Ids(emitted))

\* a frosty day too cold for the optimal range: the cold-weather advice is
\* emitted
ColdWeatherAdviceEmitted ==
    /\ Returned
    /\ HeatPumpInFrost /\ weather.avgTemp < 5
    /\ "heat-pump-cold-weather" \in Ids(emitted)
    /\ "heat-pump-optimal" \notin Ids(emitted)

\* the 12-hour clock label of the hour h, past midnight included
TwelveHourLabel(h) ==
    [n |-> IF h % 12 = 0 THEN 12 ELSE h % 12,
     half |-> IF h % 24 < 12 THEN "am" ELSE "pm"]

\* the position of the period the window is to start at: the highest
\* radiation among the hours 11..15 if there is one, otherwise overall, and
\* the earliest of equals
BestPosition(s) ==
    LET midday == {i \in 1..Len(s) : s[i].hour >= 11 /\ s[i].hour <= 15}
        pool == IF midday # {} THEN midday ELSE 1..Len(s)
    IN  CHOOSE i \in pool :
            \A j \in pool :
                /\ s[j].solarRadiation <= s[i].solarRadiation
                /\ (j < i => s[j].solarRadiation < s[i].solarRadiation)

\* C20: the window of ev-solar-charging starts at the hour of the sunny
\* period with the highest radiation among the hours 11..15 when there is
\* one and of the highest radiation overall otherwise (the earliest on ties),
\* and its two labels are the 12-hour clock labels of that hour and of the
\* hour 3 later.
EvSolarWindowLabels ==
    Returned =>
        \A i \in 1..Len(emitted) :
            emitted[i].id = "ev-solar-charging" =>
                LET h == weather.sunnyPeriods[BestPosition(weather.sunnyPeriods)].hour
                IN  emitted[i].windows = <<<<TwelveHourLabel(h), TwelveHourLabel(h + 3)>>>>

\* the position of the highest radiation of the list s, the earliest of equals
PeakPosition(s) ==
    CHOOSE i \in 1..Len(s) :
        \A j \in 1..Len(s) :
            /\ s[j].solarRadiation <= s[i].solarRadiation
            /\ (j < i => s[j].solarRadiation < s[i].solarRadiation)

\* the <<start, end>> hours of the window electric-heating-solar reports
ElectricSolarWindows ==
    {<<emitted[i].windows[1][1].n, emitted[i].windows[1][2].n>> :
        i \in {k \in 1..Len(emitted) : emitted[k].id = "electric-heating-solar"}}

\* the start labels of the window ev-solar-charging reports
EvSolarStarts ==
    {emitted[i].windows[1][1] :
        i \in {k \in 1..Len(emitted) : emitted[k].id = "ev-solar-charging"}}

\* C21 as stated: the window of electric-heating-solar starts at the hour
\* the best-solar-period selection picks (highest radiation within 11..15
\* if any, highest overall otherwise), as the window of ev-solar-charging
\* does for the same sunny periods, and spans 3 hours.
ElectricSolarSameWindow ==
    Returned =>
        \A win \in ElectricSolarWindows :
            /\ win[1] = weather.sunnyPeriods[BestPosition(weather.sunnyPeriods)].hour
            /\ win[2] = win[1] + 3
            /\ \A start \in EvSolarStarts : start = TwelveHourLabel(win[1])

\* C21, amended: the window of electric-heating-solar starts at the hour of
\* the highest radiation over all sunny periods (the earliest on ties),
\* without preference for the hours 11..15, and spans 2 hours; it starts
\* where ev-solar-charging starts only when that hour is also the choice of
\* the best-solar-period selection.
ElectricSolarPeakWindow ==
    Returned =>
        \A win \in ElectricSolarWindows :
            LET peak == weather.sunnyPeriods[PeakPosition(weather.sunnyPeriods)].hour
                best == weather.sunnyPeriods[BestPosition(weather.sunnyPeriods)].hour
            IN  /\ win = <<peak, peak + 2>>
                /\ \A start \in EvSolarStarts :
                       (start = TwelveHourLabel(win[1])) <=> (peak = best)

\* both items emitted for a day whose brightest hour is 16: heating is told
\* 16:00-18:00 while the car is told to start at an hour within 11..15
WindowsDisagree ==
    /\ Returned
    /\ ElectricSolarWindows = {<<16, 18>>}
    /\ EvSolarStarts # {}
    /\ \A start \in EvSolarStarts : start.half = "pm" /\ start.n \in {12, 2}

\* the humidity component as worded: 0.4 below 50%, from 0.4 at 50% down to
\* 0.2 at 70%, from 0.2 at 70% down to 0 at 85%, 0 from 85% on
TaperedHumidityComponent(humidity) ==
    IF humidity < 50 THEN 48000
    ELSE IF humidity < 70 THEN 48000 - 1200 * (humidity - 50)
    ELSE IF humidity < 85 THEN 1600 * (85 - humidity)
    ELSE 0

\* what the score of the sample owes to its humidity (no rain penalty)
HumidityContribution ==
    LET d == hourScore.hourData
    IN  hourScore.score
        - solarFactor(OrDefault(d.solarRadiation, 0)) - windFactor(windSpeedMph(d.windSpeed))
        - temperatureFactor(d.temp) - timeOfDayFactor(d.hour)

\* C22: the humidity adds 0.4 to the score below 50%, an amount falling
\* linearly from 0.4 at 50% to 0.2 at 70%, then from 0.2 at 70% to 0 at 85%,
\* and nothing from 85% on.
HumidityComponentTapers ==
    (Scored /\ hourScore.hourData.rainProb <= 20) =>
        HumidityContribution = TaperedHumidityComponent(hourScore.hourData.humidity)

\* C30: of two samples that differ in humidity only, the drier one never
\* scores less.
DrierNeverScoresLess ==
    (Scored /\ hourScore.damperScored) => hourScore.score >= hourScore.damperScore

\* the hours of the raw period p that are still to come: all of them for
\* another day than today
RemainingHours(p) ==
    {p.hours[j].hour : j \in {i \in 1..Len(p.hours) :
                                 ~ dayWeather.isToday \/ p.hours[i].hour >= dayWeather.ukHour}}

StillToCome(p) == RemainingHours(p) # {}

\* C23: in today's snapshot at current hour c the reported drying periods
\* are, in order, the raw periods that have an hour >= c, each cut down to
\* those hours: it starts at the first and ends at the last of them (so its
\* startHour >= c) and its duration is their number (>= 1); a raw period
\* with every hour < c is absent; for another day no hour is removed.
ElapsedHoursTrimmed ==
    Processed =>
        LET kept == SelectSeq(dayWeather.periodsRaw, StillToCome)
            reported == dayWeather.snapshot.continuousDryingPeriods
        IN  /\ Len(reported) = Len(kept)
            /\ \A k \in 1..Len(reported) :
                   LET hours == RemainingHours(kept[k])
                   IN  /\ reported[k].startHour \in hours
                       /\ reported[k].endHour \in hours
                       /\ \A h \in hours :
                              reported[k].startHour <= h /\ h <= reported[k].endHour
                       /\ reported[k].duration = Cardinality(hours)
                       /\ reported[k].duration >= 1
                       /\ (dayWeather.isToday => reported[k].startHour >= dayWeather.ukHour)
                       /\ (~ dayWeather.isToday =>
                               /\ reported[k].startHour = kept[k].startHour
                               /\ reported[k].endHour = kept[k].endHour
                               /\ reported[k].duration = kept[k].duration)
            /\ (~ dayWeather.isToday => Len(reported) = Len(dayWeather.periodsRaw))

\* today, with one raw period wholly elapsed and gone and the next one cut
\* down to start at the current hour
OneDroppedOneCut ==
    /\ Processed
    /\ dayWeather.isToday
    /\ Len(dayWeather.periodsRaw) = 2
    /\ dayWeather.periodsRaw[1].endHour < dayWeather.ukHour
    /\ dayWeather.periodsRaw[2].startHour < dayWeather.ukHour
    /\ Len(dayWeather.snapshot.continuousDryingPeriods) = 1
    /\ dayWeather.snapshot.continuousDryingPeriods[1].startHour = dayWeather.ukHour

\* the reading to score in place of x: x itself when it is there and within
\* lo..hi, the default d otherwise
SafeReading(x, lo, hi, d) == IF x # Absent /\ lo <= x /\ x <= hi THEN x ELSE d

\* C24: a sample whose solar radiation or humidity is absent or out of range
\* is scored with 0 W/m2 and 50% in their place, and a value within range
\* (a humidity of 0% included) is kept as it is.
SafeDefaultsSubstituted ==
    Processed =>
        \A i \in 1..Len(dayWeather.hourly) :
            LET raw == dayWeather.hourly[i]
                humidity == SafeReading(raw.humidity, 0, 100, 50)
                solar == SafeReading(raw.solarRadiation, 0, 2000, 0)
            IN  /\ dayWeather.hoursWithScore[i].humidity = humidity
                /\ dayWeather.hoursWithScore[i].dryingScore =
                       calculateDryingScore([raw EXCEPT !.humidity = humidity,
                                                        !.solarRadiation = solar])

\* the list applyTimeStatus is given: the first 4 of the selection
CutSelection == Slice(applyCategoryDiversity(SortRecs(emitted)), 4)

\* C25: applyTimeStatus returns a list of the same length with the same
\* items in the same order, each unchanged in every field but timeStatus,
\* whatever isToday and the current hour.
TimeStatusKeepsOrder ==
    Returned =>
        /\ Len(recs) = Len(CutSelection)
        /\ \A i \in 1..Len(recs) :
               /\ recs[i].id = CutSelection[i].id
               /\ [recs[i] EXCEPT !.timeStatus = CutSelection[i].timeStatus] = CutSelection[i]

\* a list returned for today in which a passed item stands before an
\* active one
PassedKeptAboveActive ==
    /\ Returned
    /\ isToday
    /\ \E i \in 1..Len(recs), j \in 1..Len(recs) :
           i < j /\ recs[i].timeStatus = "passed" /\ recs[j].timeStatus = "active"

TopTier(rec) == rec.priority = "high" /\ rec.impact = "high" /\ rec.isPersonalised

TopTierEmitted == {k \in 1..Len(emitted) : TopTier(emitted[k])}

\* C26: every emitted item of high priority, high impact and personalised is
\* returned, and stands before every returned item that is not of that kind;
\* the rules never emit more than 4 such items.
TopTierNeverDropped ==
    Returned =>
        /\ \A k \in TopTierEmitted : emitted[k].id \in Ids(recs)
        /\ \A i \in 1..Len(recs), j \in 1..Len(recs) :
               (i < j /\ TopTier(recs[j])) => TopTier(recs[i])
        /\ Cardinality(TopTierEmitted) <= 4

\* more than 4 items emitted, 4 of them of the top tier: the cut drops the
\* others only
FourTopTierKept ==
    /\ Returned
    /\ Len(emitted) > 4
    /\ Cardinality(TopTierEmitted) = 4
    /\ \A k \in TopTierEmitted : emitted[k].id \in Ids(recs)

\* C27: when an emitted item is not returned, no returned item has a
\* strictly lower priority than it (high before medium before low).
NoInversionBySelection ==
    Returned =>
        \A k \in 1..Len(emitted) :
            emitted[k].id \notin Ids(recs) =>
                \A i \in 1..Len(recs) :
                    priorityOrder(recs[i].priority) <= priorityOrder(emitted[k].priority)

\* the returned item r has a strictly lower priority than the emitted item a
\* that was not returned
Inverted(a, r) ==
    a.id \notin Ids(recs) /\ priorityOrder(r.priority) > priorityOrder(a.priority)

\* C27, amended: when an emitted item is not returned although an item of
\* strictly lower priority is, either the returned one is personalised and
\* the missing one is not, or the category of the missing one has 2 items
\* in the returned list.
InversionOnlyByDesign ==
    Returned =>
        \A k \in 1..Len(emitted), i \in 1..Len(recs) :
            Inverted(emitted[k], recs[i]) =>
                \/ recs[i].isPersonalised /\ ~ emitted[k].isPersonalised
                \/ CountCategory(recs, emitted[k].category) >= 2

\* an item left out by the category limit while an item of lower priority,
\* personalised or not like the missing one, is returned
InvertedByCategoryLimit ==
    /\ Returned
    /\ \E k \in 1..Len(emitted), i \in 1..Len(recs) :
           /\ Inverted(emitted[k], recs[i])
           /\ emitted[k].isPersonalised = recs[i].isPersonalised
           /\ CountCategory(recs, emitted[k].category) = 2

ExclusiveGroups ==
    { {"line-dry", "indoor-dry"},
      {"ev-solar-charging", "ev-offpeak-charging"},
      {"curtains-cold", "curtains-hot"},
      {"batch-hot-water", "efficient-hot-water", "natural-ventilation",
       "avoid-heat-generating", "hot-day-cooking"},
      {"heat-pump-optimal", "heat-pump-cold-weather"},
      {"tank-mild-night", "tank-cold-night"},
      {"grid-clean-now", "grid-low-carbon"} }

\* the heating type that the rule of an id tests, "" when it tests none
HeatingTypeOfId(id) ==
    CASE id \in {"gas-mild-weather", "gas-cold-preheat", "gas-solar-electric"} -> "gas"
      [] id \in {"oil-mild-weather", "oil-cold-weather", "oil-batch-heating"} -> "oil"
      [] id \in {"heat-pump-optimal", "heat-pump-cold-weather"} -> "heat-pump"
      [] id = "electric-heating-solar" -> "electric"
      [] OTHER -> ""

NoDuplicateIds(s) == \A i, j \in 1..Len(s) : s[i].id = s[j].id => i = j

\* C28: the rules emit each id at most once and at most one id of each
\* exclusive group, they emit the gas, oil, heat pump and electric heating
\* items only for the matching heating type, and no returned list holds
\* the same id twice.
RulesMutuallyExclusive ==
    Returned =>
        /\ NoDuplicateIds(emitted)
        /\ \A g \in ExclusiveGroups : Cardinality(Ids(emitted) \cap g) <= 1
        /\ \A k \in 1..Len(emitted) :
               HeatingTypeOfId(emitted[k].id) \in {"", prefs.heatingType}
        /\ NoDuplicateIds(recs)

\* an oil household for which four of the exclusive groups and an oil rule
\* emitted an item
GroupsAndOilEmitted ==
    /\ Returned
    /\ prefs.heatingType = "oil"
    /\ \E k \in 1..Len(emitted) : HeatingTypeOfId(emitted[k].id) = "oil"
    /\ Cardinality({g \in ExclusiveGroups : Ids(emitted) \cap g # {}}) >= 4

\* C29: once the auto-reset effect has run, the pair (heatingType,
\* hotWaterSystem) of the form is a valid combination, and so is every
\* submitted pair; the effect changes hotWaterSystem only when the value was
\* not valid for the heating type, and then to the first valid option.
AutoResetKeepsFormValid ==
    /\ ~ form.effectPending =>
           isValidHeatingCombination(form.heatingType, form.hotWaterSystem)
    /\ form.submitted.done =>
           isValidHeatingCombination(form.submitted.heatingType,
                                     form.submitted.hotWaterSystem)
    /\ form.lastEffect.ran =>
           IF isValidHeatingCombination(form.lastEffect.heatingType,
                                        form.lastEffect.before)
           THEN form.lastEffect.after = form.lastEffect.before
           ELSE form.lastEffect.after =
                    getValidHotWaterOptions(form.lastEffect.heatingType)[1]

\* SetupForm: combi was selected when the heating type became oil, the
\* effect put tank in its place, and the pair was submitted
ComboResetThenSubmitted ==
    /\ form.component = "SetupForm"
    /\ form.lastEffect = [ran |-> TRUE, heatingType |-> "oil",
                          before |-> "combi", after |-> "tank"]
    /\ form.submitted = [done |-> TRUE, heatingType |-> "oil",
                         hotWaterSystem |-> "tank"]

====
